---- MODULE Spec2Model ----
(***************************************************************************)
(* A model of extension/wrapper.cpp, the CPython wrapper around the        *)
(* Vallado SGP4 routines: the Satrec object (one elsetrec), the            *)
(* SatrecArray, the alpha-5 satellite number codec, the TLE ingestor with  *)
(* its locale workaround, and the vectorized propagation kernel.           *)
(*                                                                         *)
(* Characters are their ASCII codes, C strings are sequences of codes     *)
(* without the terminating NUL.  Day fractions are integers counting       *)
(* 1/Den of a day; whole Julian days are counted in half days, so that     *)
(* the .5 of 2433281.5 is exact.                                           *)
(***************************************************************************)
EXTENDS Integers, Sequences, FiniteSets, TLC

VARIABLES
    pc,             \* position of the calling script
    args,           \* the arguments of the call(s) the script makes
    self,           \* the elsetrec inside the Satrec object
    ret,            \* what the last finished call returned
    locale,         \* the process's LC_NUMERIC locale
    switch_locale,  \* the static bool of wrapper.cpp:10
    parse_locale,   \* LC_NUMERIC in force when the column parser ran
    satrec_array,   \* the elsetrecs inside the SatrecArray object
    r, v, e,        \* the caller's position, velocity and error arrays
    call,           \* the frame of the running _vectorized_sgp4 call
    wpc, wj,        \* per iteration i of the parallel loop: position, j
    wrote,          \* per array cell and record: the iterations that wrote it
    beyond          \* the indices past the SatrecArray's last slot written to

lvars == <<locale, switch_locale, parse_locale>>

bvars == <<satrec_array, r, v, e, call, wpc, wj, wrote, beyond>>

vars == <<pc, args, self, ret, lvars, bvars>>

(***************************************************************************)
(* Bounds of the model.                                                    *)
(***************************************************************************)
\* how many satellite numbers below 0 the inputs reach
NegSatnums == 2
\* how many satellite numbers above the alpha-5 ceiling the inputs reach
ExtraSatnums == 20002
\* day fractions are rounded to 1/Grid of a day (the code: 1e-8 of a day)
Grid == 4
\* the resolution below the rounding grid (floating point noise)
Sub == 4
\* the epochs given to sgp4init reach MaxEpochDays days either side of 0
MaxEpochDays == 2

Den == Grid * Sub

(***************************************************************************)
(* Characters.                                                             *)
(***************************************************************************)
Ch_NUL == 0
Ch_space == 32
Ch_plus == 43
Ch_minus == 45
Ch_0 == 48
Ch_9 == 57
Ch_A == 65
Ch_I == 73
Ch_O == 79
Ch_Z == Ch_A + 25

IsDigit(c) == c >= Ch_0 /\ c <= Ch_9

\* conversion of an int to (signed, 8 bit) char
ToChar(x) == ((x + 128) % 256) - 128

\* C's integer division, which truncates toward zero
CDiv(a, b) == IF a >= 0 THEN a \div b ELSE -((-a) \div b)

RECURSIVE Digits(_)
\* the decimal digits of n >= 0, as printf's %ld writes them
Digits(n) == IF n < 10 THEN <<Ch_0 + n>>
             ELSE Append(Digits(n \div 10), Ch_0 + (n % 10))

\* printf's "%ld"
FormatLd(n) == IF n < 0 THEN <<Ch_minus>> \o Digits(-n) ELSE Digits(n)

\* printf's "%04ld" of n >= 0
Format04Ld(n) ==
    LET d == Digits(n)
    IN  IF Len(d) >= 4 THEN d ELSE [i \in 1..(4 - Len(d)) |-> Ch_0] \o d

\* snprintf(buf, size, ...): at most size-1 characters are stored
Snprintf(size, str) == IF Len(str) > size - 1 THEN SubSeq(str, 1, size - 1) ELSE str

RECURSIVE AtolDigits(_, _)
AtolDigits(s, acc) ==
    IF s = <<>> \/ ~IsDigit(Head(s)) THEN acc
    ELSE AtolDigits(Tail(s), acc * 10 + (Head(s) - Ch_0))

RECURSIVE Atol(_)
\* atol(): leading white space, an optional sign, then digits up to the
\* first character that is none
Atol(s) ==
    IF s = <<>> THEN 0
    ELSE IF Head(s) = Ch_space THEN Atol(Tail(s))
    ELSE IF Head(s) = Ch_minus THEN -AtolDigits(Tail(s), 0)
    ELSE IF Head(s) = Ch_plus THEN AtolDigits(Tail(s), 0)
    ELSE AtolDigits(s, 0)

(***************************************************************************)
(* The alpha-5 codec.                                                      *)
(***************************************************************************)
\* a plausible slip of the decoder: the I and O skips forgotten
get_satnum_noskip(s) ==
    IF Len(s) < 5 \/ s[1] <= Ch_9 THEN Atol(s)
    ELSE (s[1] - Ch_A + 10) * 10000 + Atol(Tail(s))

\* get_satnum: the number a satnum field stands for
get_satnum_value(s) ==
    IF Len(s) < 5 \/ s[1] <= Ch_9 THEN Atol(s)
    ELSE IF s[1] <= Ch_I THEN (s[1] - Ch_A + 10) * 10000 + Atol(Tail(s))
    ELSE IF s[1] <= Ch_O THEN (s[1] - Ch_A + 9) * 10000 + Atol(Tail(s))
    ELSE (s[1] - Ch_A + 8) * 10000 + Atol(Tail(s))

\* Satrec_sgp4init: the satnum_str it builds from the long satnum
satnum_str(satnum) ==
    IF satnum < 100000 THEN Snprintf(6, FormatLd(satnum))
    ELSE LET c0 == ToChar(Ch_A + CDiv(satnum, 10000) - 10)
             c1 == IF c0 > Ch_I THEN ToChar(c0 + 1) ELSE c0
             c2 == IF c1 > Ch_O THEN ToChar(c1 + 1) ELSE c1
         IN  <<c2>> \o Snprintf(5, Format04Ld(satnum % 10000))

(***************************************************************************)
(* The elsetrec, and the routines of SGP4.cpp the wrapper calls.  The      *)
(* orbital elements of a record are one token, elem; what the propagation  *)
(* routine makes of them is a fixed table.                                 *)
(***************************************************************************)
\* the element sets the inputs are drawn from
MaxElem == 3
\* the representation of NAN in an array of doubles
NAN == -1
\* twice 2433281.5, the Julian date of the epoch's day 0
JD1950x2 == 4866563

Elems == 0..MaxElem

\* tp_alloc() zero-fills the object
ZeroRec ==
    [satnum |-> <<>>, jdsatepoch2 |-> 0, jdsatepochF |-> 0, elem |-> 0,
     error |-> 0, t |-> 0, method |-> Ch_NUL, whichconst |-> 0,
     intldesg |-> <<>>]

\* SGP4Funcs::sgp4's error code for the elements elem at tsince (counted in
\* 1/Den of a minute): element set 0 always propagates, the others run
\* through the codes 0..6 as time goes
sgp4_error(elem, tsince) ==
    IF elem = 0 THEN 0
    ELSE LET a == IF tsince < 0 THEN -tsince ELSE tsince
         IN  (elem + a \div (45 * Den)) % 7

\* the k-th (1..6: r[0..2], v[0..2]) component SGP4Funcs::sgp4 computes
sgp4_value(elem, tsince, k) ==
    LET a == IF tsince < 0 THEN 2 * (-tsince) + 1 ELSE 2 * tsince
    IN  1 + k + 8 * (elem + (MaxElem + 1) * a)

\* SGP4Funcs::sgp4(satrec, tsince, r, v): the record afterwards, and the r
\* and v it leaves in the caller's arrays (codes 1..5 return before r and
\* v are written)
SGP4Funcs_sgp4(satrec, tsince, r3, v3) ==
    LET err == sgp4_error(satrec.elem, tsince)
    IN  [satrec |-> [satrec EXCEPT !.t = tsince, !.error = err],
         r |-> IF err \in 1..5 THEN r3
               ELSE [k \in 1..3 |-> sgp4_value(satrec.elem, tsince, k)],
         v |-> IF err \in 1..5 THEN v3
               ELSE [k \in 1..3 |-> sgp4_value(satrec.elem, tsince, 3 + k)]]

\* SGP4Funcs::sgp4init(whichconst, opsmode, satn, epoch, ..., satrec): it
\* stores the satnum string and the elements, selects the method and ends
\* with a propagation to tsince 0
SGP4Funcs_sgp4init(whichconst, satn, elem, satrec) ==
    SGP4Funcs_sgp4([satrec EXCEPT !.satnum = satn, !.elem = elem,
                                  !.whichconst = whichconst,
                                  !.method = IF elem % 2 = 0 THEN 110 ELSE 100],
                   0, <<0, 0, 0>>, <<0, 0, 0>>).satrec

(***************************************************************************)
(* Satrec.sgp4init() and the satnum accessor.                              *)
(***************************************************************************)
PyNone == [type |-> "None"]

\* no SatrecArray, no arrays, no call of _vectorized_sgp4 under way
NoBatch ==
    /\ satrec_array = <<>>
    /\ r = <<>>
    /\ v = <<>>
    /\ e = <<>>
    /\ call = [target |-> "none", imax |-> 0, jmax |-> 0]
    /\ wpc = <<>>
    /\ wj = <<>>
    /\ wrote = [r |-> <<>>, v |-> <<>>, e |-> <<>>, rec |-> <<>>]
    /\ beyond = {}

\* modf(): the integral part, which has the sign of x
modf_int(x) == CDiv(x, Den)

\* modf(): the fractional part, which has the sign of x
modf_frac(x) == x - modf_int(x) * Den

\* Satrec_sgp4init's effect on the elsetrec
sgp4init_rec(satrec, whichconst, satnum, epoch, elem) ==
    LET s == SGP4Funcs_sgp4init(whichconst, satnum_str(satnum), elem, satrec)
    IN  [s EXCEPT !.jdsatepochF = modf_frac(epoch),
                  !.jdsatepoch2 = 2 * modf_int(epoch) + JD1950x2]

Satrec_sgp4init ==
    /\ pc = "new"
    /\ self' = sgp4init_rec(self, args.whichconst, args.satnum, args.epoch,
                            args.elem)
    /\ ret' = PyNone
    /\ pc' = "inited"
    /\ UNCHANGED <<args, lvars, bvars>>

get_satnum ==
    /\ pc = "inited"
    /\ ret' = [type |-> "long", val |-> get_satnum_value(self.satnum)]
    /\ pc' = "read"
    /\ UNCHANGED <<args, self, lvars, bvars>>

(***************************************************************************)
(* SpecCodec: a script makes a Satrec, calls sgp4init with drawn           *)
(* arguments and reads satnum back.                                        *)
(***************************************************************************)
Alpha5Ceiling == 34 * 10000 - 1

SatnumInputs == (-NegSatnums)..(Alpha5Ceiling + ExtraSatnums)

EpochInputs == (-MaxEpochDays * Den)..(MaxEpochDays * Den)

CodecInputs ==
    {[satnum |-> n, epoch |-> 0, elem |-> 0, whichconst |-> 2] :
        n \in SatnumInputs}
    \cup
    {[satnum |-> n, epoch |-> ep, elem |-> el, whichconst |-> 2] :
        n \in {5, 25544, 100001}, ep \in EpochInputs, el \in Elems}

InitCodec ==
    /\ pc = "new"
    /\ args \in CodecInputs
    /\ self = ZeroRec
    /\ ret = PyNone
    /\ locale = "C"
    /\ switch_locale = FALSE
    /\ parse_locale = "C"
    /\ NoBatch

NextCodec == Satrec_sgp4init \/ get_satnum

SpecCodec == InitCodec /\ [][NextCodec]_vars

\* C1: for every catalog number n in 0..339999, the satnum accessor reads
\* back n from the field sgp4init stored for n
C1_RoundTrip ==
    (pc = "read" /\ args.satnum \in 0..Alpha5Ceiling) => ret.val = args.satnum

C1_Witness ==
    /\ pc = "read"
    /\ args.satnum = 339999
    /\ self.satnum = <<90, 57, 57, 57, 57>>
    /\ ret.val = 339999

\* the letters alpha-5 uses for 10, 11, ...: A to Z without I and O
Alpha5Letters ==
    SelectSeq([i \in 1..26 |-> Ch_A + i - 1], LAMBDA c : c \notin {Ch_I, Ch_O})

\* C2: for n in 100000..339999 the stored field is the alpha-5 letter of
\* n / 10000 (never I or O) followed by n % 10000 in four digits
C2_EncodingSkipsIO ==
    (pc \in {"inited", "read"} /\ args.satnum \in 100000..Alpha5Ceiling) =>
        /\ Len(self.satnum) = 5
        /\ self.satnum[1] \in Ch_A..Ch_Z
        /\ self.satnum[1] \notin {Ch_I, Ch_O}
        /\ self.satnum[1] = Alpha5Letters[args.satnum \div 10000 - 9]
        /\ SubSeq(self.satnum, 2, 5) = Format04Ld(args.satnum % 10000)

\* C9: sgp4init with a satellite number below 0 or above 339999 fails with
\* InvalidSatelliteNumber and stores no field; the stored field of every
\* initialized record decodes to a number in 0..339999
C9_OutOfRangeRejected ==
    /\ (pc \in {"inited", "read"} /\ args.satnum \notin 0..Alpha5Ceiling) =>
           (ret.type = "InvalidSatelliteNumber" /\ self.satnum = <<>>)
    /\ (pc \in {"inited", "read"} /\ self.satnum # <<>>) =>
           get_satnum_value(self.satnum) \in 0..Alpha5Ceiling

\* C6: the day fraction of every initialized record is in [0, 1)
C6_EpochFractionInUnitInterval ==
    (pc \in {"inited", "read"}) =>
        (self.jdsatepochF >= 0 /\ self.jdsatepochF < Den)

(***************************************************************************)
(* Satrec.twoline2rv(): the TLE ingestor.                                  *)
(***************************************************************************)
Ch_dot == 46
Ch_underscore == 95
Ch_X == Ch_A + 23
\* the size of the line1 and line2 arrays
LineBufSize == 130
\* the index at which both lines are cut
ChecksumIndex == 68

Locales == {"C", "en_US.UTF-8", "de_DE.UTF-8"}

\* localeconv()->decimal_point of a numeric locale
DecimalPoint(l) == IF l = "de_DE.UTF-8" THEN "," ELSE "."

\* sscanf("1,5", "%f", &f): f in tenths; the comma ends the number unless
\* it is the locale's decimal point
sscanf_f_1comma5(l) == IF DecimalPoint(l) = "," THEN 15 ELSE 10

\* setlocale(category, name) with a name: the value it returns, which is
\* the name of the locale it has just set
setlocale_ret(name) == name

\* strncpy(dst, src, n): n characters, src cut or padded with NULs
Strncpy(src, n) == [i \in 1..n |-> IF i <= Len(src) THEN src[i] ELSE Ch_NUL]

\* the C string held by a character array: up to the first NUL
RECURSIVE CStr(_)
CStr(buf) == IF buf = <<>> \/ Head(buf) = Ch_NUL THEN <<>>
             ELSE <<Head(buf)>> \o CStr(Tail(buf))

\* the characters up to the first white space or NUL, as sscanf's %s reads
RECURSIVE ScanToken(_)
ScanToken(buf) ==
    IF buf = <<>> \/ Head(buf) \in {Ch_NUL, Ch_space} THEN <<>>
    ELSE <<Head(buf)>> \o ScanToken(Tail(buf))

\* lines 114..121 and 146..149: the line as the parser gets it (C index i
\* is index i + 1 here)
PrepareLine(string) ==
    LET copied == Strncpy(string, LineBufSize)
        cut == [copied EXCEPT ![ChecksumIndex + 1] = Ch_NUL]
    IN  [i \in 1..LineBufSize |->
            IF i - 1 \in 2..6 /\ cut[i] = Ch_space THEN Ch_0 ELSE cut[i]]

\* the columns (from 1) of line 1 and of line 2 that hold numbers
NumericCols1 == (19..20) \cup (21..32) \cup (34..43) \cup (45..52)
                \cup (54..61) \cup {63} \cup (65..68)

NumericCols2 == (9..16) \cup (18..25) \cup (27..33) \cup (35..42)
                \cup (44..51) \cup (53..63) \cup (64..68)

NumericChars == (Ch_0..Ch_9) \cup {Ch_space, Ch_dot, Ch_plus, Ch_minus}

\* a line the fixed-column layout cannot hold: shorter than the 68
\* significant columns, or with another character where a number stands
MalformedLine(line, cols) ==
    \/ Len(line) < ChecksumIndex
    \/ \E i \in cols : line[i] \notin NumericChars

\* SGP4Funcs::twoline2rv(longstr1, longstr2, ..., whichconst, ..., satrec):
\* the satnum and the designator are read from the text, the numbers by a
\* locale-sensitive scanf(); fields is what the numeric columns say.  It
\* reports no error: of a malformed line the fields are left as they are.
SGP4Funcs_twoline2rv(line1, line2, whichconst, fields, numeric_locale, satrec) ==
    LET bad == \/ MalformedLine(CStr(line1), NumericCols1)
               \/ MalformedLine(CStr(line2), NumericCols2)
        satn == ScanToken(SubSeq(line1, 3, 7))
        desg == ScanToken(
                   [i \in 1..8 |->
                      LET c == line1[9 + i]
                      IN  IF c # Ch_space THEN c
                          ELSE IF i = 1 THEN Ch_dot
                          ELSE IF i <= 6 THEN Ch_underscore ELSE c])
        comma == DecimalPoint(numeric_locale) = ","
        withText == [satrec EXCEPT !.satnum = satn, !.intldesg = desg]
    IN  IF bad THEN withText
        ELSE [SGP4Funcs_sgp4init(whichconst, satn, fields.elem, withText)
                EXCEPT !.jdsatepoch2 = 2 * fields.epochday + JD1950x2,
                       !.jdsatepochF = IF comma THEN 0 ELSE fields.epochF]

\* round(F * 1e8) / 1e8: F to the nearest 1/Grid of a day, halves away
\* from zero
round_to_grid(F) ==
    IF F >= 0 THEN ((2 * F + Sub) \div (2 * Sub)) * Sub
    ELSE -(((2 * (-F) + Sub) \div (2 * Sub)) * Sub)

\* lines 163..167: the designator with the parser's '.' and '_' turned back
\* into spaces
despace(desg) ==
    [i \in 1..Len(desg) |->
        IF i = 1 /\ desg[i] = Ch_dot THEN Ch_space
        ELSE IF i > 1 /\ i <= 11 /\ desg[i] = Ch_underscore THEN Ch_space
        ELSE desg[i]]

Satrec_twoline2rv ==
    /\ pc = "start"
    /\ IF ~args.strings
       THEN \* PyArg_ParseTuple fails: TypeError
            /\ ret' = [type |-> "TypeError"]
            /\ pc' = "failed"
            /\ UNCHANGED <<self, lvars>>
       ELSE LET line1 == PrepareLine(args.line1)
                line2 == PrepareLine(args.line2)
                sw == (sscanf_f_1comma5(locale) = 15)
                old_locale == IF sw THEN setlocale_ret("C") ELSE "NULL"
                during == IF sw THEN "C" ELSE locale
                parsed == SGP4Funcs_twoline2rv(line1, line2, args.whichconst,
                                               args.fields, during, ZeroRec)
            IN  /\ switch_locale' = sw
                /\ parse_locale' = during
                /\ self' = [parsed EXCEPT
                              !.jdsatepochF = round_to_grid(parsed.jdsatepochF),
                              !.intldesg = despace(parsed.intldesg)]
                /\ locale' = IF sw THEN old_locale ELSE during
                /\ ret' = [type |-> "Satrec"]
                /\ pc' = "inited"
    /\ UNCHANGED <<args, bvars>>

(***************************************************************************)
(* SpecIngest: a script, started under some numeric locale, calls          *)
(* Satrec.twoline2rv on two drawn lines and reads satnum.                  *)
(***************************************************************************)
\* "1 25544U 98067A   08264.51782528 -.00002182  00000-0 -11606-4 0  2927"
IssLine1 ==
    <<
       49, 32, 50, 53, 53, 52, 52, 85, 32, 57, 56, 48, 54, 55,
       65, 32, 32, 32, 48, 56, 50, 54, 52, 46, 53, 49, 55, 56,
       50, 53, 50, 56, 32, 45, 46, 48, 48, 48, 48, 50, 49, 56,
       50, 32, 32, 48, 48, 48, 48, 48, 45, 48, 32, 45, 49, 49,
       54, 48, 54, 45, 52, 32, 48, 32, 32, 50, 57, 50, 55 >>

\* "2 25544  51.6416 247.4627 0006703 130.5360 325.0288 15.72125391563537"
IssLine2 ==
    <<
       50, 32, 50, 53, 53, 52, 52, 32, 32, 53, 49, 46, 54, 52,
       49, 54, 32, 50, 52, 55, 46, 52, 54, 50, 55, 32, 48, 48,
       48, 54, 55, 48, 51, 32, 49, 51, 48, 46, 53, 51, 54, 48,
       32, 51, 50, 53, 46, 48, 50, 56, 56, 32, 49, 53, 46, 55,
       50, 49, 50, 53, 51, 57, 49, 53, 54, 51, 53, 51, 55 >>

\* the satnum fields of the drawn lines: "25544", "    5", "A0001", "Z9999"
SatFields ==
    { <<50, 53, 53, 52, 52>>, <<32, 32, 32, 32, 53>>,
      <<65, 48, 48, 48, 49>>, <<90, 57, 57, 57, 57>> }

\* the lengths the drawn lines are cut to: with the checksum, without it,
\* in the middle of a field, empty
LineLengths == {69, 68, 40, 0}

\* the column of the epoch field at which a drawn line may hold an X
BadColumn == 25

WithSatField(line, field) ==
    [i \in 1..Len(line) |-> IF i \in 3..7 THEN field[i - 2] ELSE line[i]]

WithX(line, bad) ==
    [i \in 1..Len(line) |-> IF bad /\ i = BadColumn THEN Ch_X ELSE line[i]]

DrawnLine(line, field, len, bad) ==
    SubSeq(WithX(WithSatField(line, field), bad), 1, len)

\* what the parser's scanf() makes of the epoch's day fraction: a multiple
\* of 1/Grid of a day, off by less than half of that
RawFractions ==
    {F \in 0..(Den - 1) :
        \E k \in 0..(Grid - 1) : 2 * (F - k * Sub) < Sub /\ 2 * (k * Sub - F) < Sub}

IngestInputs ==
    {[strings |-> st, whichconst |-> 2, locale |-> l,
      line1 |-> DrawnLine(IssLine1, f, IF w = 1 THEN len ELSE 69, w = 1 /\ bad),
      line2 |-> DrawnLine(IssLine2, f, IF w = 2 THEN len ELSE 69, w = 2 /\ bad),
      fields |-> [epochday |-> 21447, epochF |-> F, elem |-> el]] :
        st \in BOOLEAN, l \in Locales, f \in SatFields, w \in {1, 2},
        len \in LineLengths, bad \in BOOLEAN, F \in RawFractions, el \in Elems}

InitIngest ==
    /\ pc = "start"
    /\ args \in IngestInputs
    /\ self = ZeroRec
    /\ ret = PyNone
    /\ locale = args.locale
    /\ switch_locale = FALSE
    /\ parse_locale = args.locale
    /\ NoBatch

NextIngest == Satrec_twoline2rv \/ get_satnum

SpecIngest == InitIngest /\ [][NextIngest]_vars

\* C5: when twoline2rv has returned, the numeric locale is the one the
\* process had before the call, and the column parser ran under a locale
\* whose decimal separator is '.'
C5_LocaleRestored ==
    (pc \in {"inited", "read"} /\ ret.type # "TypeError") =>
        (locale = args.locale /\ DecimalPoint(parse_locale) = ".")

\* C8: given a line shorter than 68 columns or with a non-numeric
\* character in a numeric field, twoline2rv fails with MalformedTLE and
\* returns no record
C8_MalformedFailsFast ==
    (/\ pc \in {"inited", "read", "failed"}
     /\ args.strings
     /\ \/ MalformedLine(args.line1, NumericCols1)
        \/ MalformedLine(args.line2, NumericCols2)) =>
        (ret.type = "MalformedTLE" /\ self = ZeroRec)

(***************************************************************************)
(* _vectorized_sgp4 and the propagation methods.  The arrays are counted   *)
(* in elements: jd, fr, r and v hold doubles, e holds bytes.  args.jd and  *)
(* args.fr are the caller's (read-only) date arrays.                       *)
(***************************************************************************)
SizeofDouble == 8
SizeofUint8 == 1
\* what an uninitialized double on the stack holds
Indeterminate == -2

\* Py_buffer.len, in bytes, of an array of doubles
DoubleBufLen(a) == SizeofDouble * Len(a)

\* a plausible slip: the error array left out of the test
bad_output_dimension_no_e(rlen, vlen, elen, imax, jmax) ==
    \/ rlen # SizeofDouble * imax * jmax * 3
    \/ vlen # SizeofDouble * imax * jmax * 3

\* lines 58..60
bad_output_dimension(rlen, vlen, elen, imax, jmax) ==
    \/ rlen # SizeofDouble * imax * jmax * 3
    \/ vlen # SizeofDouble * imax * jmax * 3
    \/ elen # SizeofUint8 * imax * jmax

\* a plausible slip: the row stride forgotten
k1_without_stride(i, j, jmax) == i + j

\* line 77: the index of sample (i, j), from 0
k1_index(i, j, jmax) == i * jmax + j

\* lines 75..76 and 246..247: minutes since the record's epoch (here in
\* 1/Den of a minute; jd in half days, fr in 1/Den of a day)
tsince_of(jdj, frj, satrec) ==
    (jdj - satrec.jdsatepoch2) * 720 * Den + (frj - satrec.jdsatepochF) * 1440

\* a plausible slip (and an older behaviour): code 6 poisoned too
poisoned_any_error(error) == error # 0

\* lines 81, 233, 249: whether the sample is overwritten with NAN
poisoned(error) == error # 0 /\ error < 6

\* a[k..k+2] of an array a indexed from 0
Triple(a, k) == <<a[k + 1], a[k + 2], a[k + 3]>>

\* a with a[k..k+2] (from 0) set to the triple t
WithTriple(a, k, t) ==
    [x \in DOMAIN a |-> IF x \in (k + 1)..(k + 3) THEN t[x - k] ELSE a[x]]

\* the ghost record of who wrote what, with iteration i added at cells
Mark(w, cells, i) ==
    [x \in DOMAIN w |-> IF x \in cells THEN w[x] \cup {i} ELSE w[x]]

\* a plausible slip: every iteration given the first record
iter_sgp4_first_record(mem, i, j, jmax, jd, fr) ==
    LET satrec == mem.recs[1]
        t == tsince_of(jd[j + 1], fr[j + 1], satrec)
        k1 == k1_index(i, j, jmax)
        k3 == 3 * k1
        res == SGP4Funcs_sgp4(satrec, t, Triple(mem.r, k3), Triple(mem.v, k3))
        written == IF res.satrec.error \in 1..5 THEN {} ELSE (k3 + 1)..(k3 + 3)
    IN  [mem EXCEPT !.recs[1] = res.satrec,
                    !.r = WithTriple(@, k3, res.r),
                    !.v = WithTriple(@, k3, res.v),
                    !.w = [@ EXCEPT !.rec = Mark(@, {1}, i),
                                    !.r = Mark(@, written, i),
                                    !.v = Mark(@, written, i)]]

\* lines 73..79 for iteration (i, j), on mem = the arrays r, v, e, the
\* records recs the call was given, and the ghost record w
iter_sgp4(mem, i, j, jmax, jd, fr) ==
    LET satrec == mem.recs[i + 1]
        t == tsince_of(jd[j + 1], fr[j + 1], satrec)
        k1 == k1_index(i, j, jmax)
        k3 == 3 * k1
        res == SGP4Funcs_sgp4(satrec, t, Triple(mem.r, k3), Triple(mem.v, k3))
        written == IF res.satrec.error \in 1..5 THEN {} ELSE (k3 + 1)..(k3 + 3)
    IN  [mem EXCEPT !.recs[i + 1] = res.satrec,
                    !.r = WithTriple(@, k3, res.r),
                    !.v = WithTriple(@, k3, res.v),
                    !.w = [@ EXCEPT !.rec = Mark(@, {i + 1}, i),
                                    !.r = Mark(@, written, i),
                                    !.v = Mark(@, written, i)]]

\* lines 80..83 for iteration (i, j)
iter_store(mem, i, j, jmax) ==
    LET satrec == mem.recs[i + 1]
        k1 == k1_index(i, j, jmax)
        k3 == 3 * k1
        nan == poisoned(satrec.error)
        written == IF nan THEN (k3 + 1)..(k3 + 3) ELSE {}
    IN  [mem EXCEPT !.e[k1 + 1] = satrec.error % 256,
                    !.r = IF nan THEN WithTriple(@, k3, <<NAN, NAN, NAN>>) ELSE @,
                    !.v = IF nan THEN WithTriple(@, k3, <<NAN, NAN, NAN>>) ELSE @,
                    !.w = [@ EXCEPT !.e = Mark(@, {k1 + 1}, i),
                                    !.r = Mark(@, written, i),
                                    !.v = Mark(@, written, i)]]

\* the records raw_satrec_array points to
RawArray == IF call.target = "array" THEN satrec_array ELSE <<self>>

Mem == [r |-> r, v |-> v, e |-> e, recs |-> RawArray, w |-> wrote]

\* the variables' new values, given the memory after a step
StoreMem(mem) ==
    /\ r' = mem.r
    /\ v' = mem.v
    /\ e' = mem.e
    /\ wrote' = mem.w
    /\ IF call.target = "array"
       THEN satrec_array' = mem.recs /\ self' = self
       ELSE self' = mem.recs[1] /\ satrec_array' = satrec_array

\* lines 38..70 and 88..96: the call up to the parallel loop
\* (raw_satrec_array is the SatrecArray's or the Satrec's own elsetrec)
vectorized_begin(target, imax) ==
    /\ pc = "start"
    /\ IF ~args.buffers
       THEN \* PyObject_GetBuffer fails (no buffer, or a read-only one)
            /\ ret' = [type |-> "BufferError"]
            /\ pc' = "returned"
            /\ UNCHANGED <<call, wpc, wj>>
       ELSE IF DoubleBufLen(args.jd) # DoubleBufLen(args.fr)
       THEN /\ ret' = [type |-> "ValueError",
                       msg |-> "jd and fr must have the same shape"]
            /\ pc' = "returned"
            /\ UNCHANGED <<call, wpc, wj>>
       ELSE LET jmax == DoubleBufLen(args.jd) \div SizeofDouble
            IN  IF bad_output_dimension(DoubleBufLen(r), DoubleBufLen(v),
                                        SizeofUint8 * Len(e), imax, jmax)
                THEN /\ ret' = [type |-> "ValueError",
                                msg |-> "bad output array dimension"]
                     /\ pc' = "returned"
                     /\ UNCHANGED <<call, wpc, wj>>
                ELSE /\ call' = [target |-> target, imax |-> imax, jmax |-> jmax]
                     /\ wpc' = [i \in 1..imax |->
                                  IF jmax = 0 THEN "done" ELSE "sgp4"]
                     /\ wj' = [i \in 1..imax |-> 0]
                     /\ pc' = "running"
                     /\ ret' = ret
    /\ UNCHANGED <<args, self, lvars, satrec_array, r, v, e, wrote, beyond>>

\* SatrecArray._sgp4()
SatrecArray_sgp4 ==
    /\ args.entry = "SatrecArray._sgp4"
    /\ vectorized_begin("array", Len(satrec_array))

\* Satrec._sgp4()
Satrec__sgp4 ==
    /\ args.entry = "Satrec._sgp4"
    /\ vectorized_begin("self", 1)

\* iteration i of the parallel loop calls SGP4Funcs::sgp4 for its next j
worker_sgp4(i) ==
    /\ pc = "running"
    /\ wpc[i + 1] = "sgp4"
    /\ StoreMem(iter_sgp4(Mem, i, wj[i + 1], call.jmax, args.jd, args.fr))
    /\ wpc' = [wpc EXCEPT ![i + 1] = "store"]
    /\ UNCHANGED <<pc, args, ret, lvars, call, wj, beyond>>

\* iteration i stores the error code, poisons the sample, and goes on
worker_store(i) ==
    /\ pc = "running"
    /\ wpc[i + 1] = "store"
    /\ StoreMem(iter_store(Mem, i, wj[i + 1], call.jmax))
    /\ wj' = [wj EXCEPT ![i + 1] = @ + 1]
    /\ wpc' = [wpc EXCEPT ![i + 1] =
                 IF wj[i + 1] + 1 < call.jmax THEN "sgp4" ELSE "done"]
    /\ UNCHANGED <<pc, args, ret, lvars, call, beyond>>

\* the end of the parallel loop, and lines 88..96
vectorized_return ==
    /\ pc = "running"
    /\ \A i \in 1..call.imax : wpc[i] = "done"
    /\ ret' = PyNone
    /\ pc' = "returned"
    /\ UNCHANGED <<args, self, lvars, bvars>>

\* lines 232..236 and 248..252, on the Satrec's elsetrec
sgp4_tuple(satrec, tsince) ==
    LET local == <<Indeterminate, Indeterminate, Indeterminate>>
        res == SGP4Funcs_sgp4(satrec, tsince, local, local)
        nan == poisoned(res.satrec.error)
    IN  [satrec |-> res.satrec,
         ret |-> [type |-> "tuple", error |-> res.satrec.error,
                  r |-> IF nan THEN <<NAN, NAN, NAN>> ELSE res.r,
                  v |-> IF nan THEN <<NAN, NAN, NAN>> ELSE res.v]]

\* Satrec.sgp4_tsince(tsince)
Satrec_sgp4_tsince ==
    /\ pc = "start"
    /\ args.entry = "Satrec.sgp4_tsince"
    /\ LET out == sgp4_tuple(self, args.tsince)
       IN  self' = out.satrec /\ ret' = out.ret
    /\ pc' = "returned"
    /\ UNCHANGED <<args, lvars, bvars>>

\* Satrec.sgp4(jd, fr)
Satrec_sgp4 ==
    /\ pc = "start"
    /\ args.entry = "Satrec.sgp4"
    /\ LET out == sgp4_tuple(self, tsince_of(args.jd[1], args.fr[1], self))
       IN  self' = out.satrec /\ ret' = out.ret
    /\ pc' = "returned"
    /\ UNCHANGED <<args, lvars, bvars>>

(***************************************************************************)
(* SpecBatch: a script holding initialized records calls one of the        *)
(* propagation methods with drawn arrays.                                  *)
(***************************************************************************)
\* the most records in the SatrecArray
MaxI == 2
\* the most query dates
MaxJ == 2
\* the day fractions of the query dates start at 0..MaxFrOffset
MaxFrOffset == 1
\* what the caller's error array holds before the call (no error code)
ErrFill == 7

\* record number i (from 1) of the script: initialized by sgp4init with
\* elements elem, its epoch some days and a fraction either side of 0
InitializedRec(i, elem) ==
    sgp4init_rec(ZeroRec, 2, 25543 + i, (2 * i - 3) * Den + 3 * i - 5, elem)

RECURSIVE RecordSeqs(_)
\* the sequences of n initialized records
RecordSeqs(n) ==
    IF n = 0 THEN {<<>>}
    ELSE {Append(recs, InitializedRec(n, el)) :
             recs \in RecordSeqs(n - 1), el \in Elems}

\* the query dates: consecutive days from day 0 of the epoch count, the
\* fraction moving by 5/Den of a day
DateArrays(n, ofs) ==
    [jd |-> [j \in 1..n |-> JD1950x2 + 2 * (j - 1)],
     fr |-> [j \in 1..n |-> (ofs + 5 * (j - 1)) % Den]]

\* how far the lengths of fr, r, v and e are from what the shape asks
ShapeCases ==
    {<<0, 0, 0, 0>>, <<1, 0, 0, 0>>, <<0, -1, 0, 0>>, <<0, 1, 0, 0>>,
     <<0, 0, -1, 0>>, <<0, 0, 1, 0>>, <<0, 0, 0, -1>>, <<0, 0, 0, 1>>,
     <<0, -1, 1, 0>>, <<0, 3, 3, 1>>}

AtLeast0(n) == IF n < 0 THEN 0 ELSE n

\* the arguments of a _sgp4 call on imax records
ArrayArgs(entry, recs, selfrec, imax, n, ofs, sh, buffers) ==
    LET d == DateArrays(n, ofs)
    IN  [entry |-> entry, records |-> recs, selfrec |-> selfrec,
         buffers |-> buffers, tsince |-> 0,
         jd |-> d.jd,
         fr |-> d.fr \o [x \in 1..sh[1] |-> 0],
         r |-> [x \in 1..AtLeast0(imax * n * 3 + sh[2]) |-> 0],
         v |-> [x \in 1..AtLeast0(imax * n * 3 + sh[3]) |-> 0],
         e |-> [x \in 1..AtLeast0(imax * n + sh[4]) |-> ErrFill]]

BatchInputs ==
    {ArrayArgs("SatrecArray._sgp4", recs, InitializedRec(1, 0), Len(recs),
               n, ofs, sh, b) :
        recs \in UNION {RecordSeqs(i) : i \in 0..MaxI}, n \in 0..MaxJ,
        ofs \in 0..MaxFrOffset, sh \in ShapeCases, b \in BOOLEAN}
    \cup
    {ArrayArgs("Satrec._sgp4", <<>>, InitializedRec(1, el), 1, n, ofs, sh, b) :
        el \in Elems, n \in 0..MaxJ, ofs \in 0..MaxFrOffset,
        sh \in ShapeCases, b \in BOOLEAN}
    \cup
    {ArrayArgs("Satrec.sgp4", <<>>, InitializedRec(i, el), 0, 1, ofs,
               <<0, 0, 0, 0>>, TRUE) :
        i \in 1..MaxI, el \in Elems, ofs \in 0..MaxFrOffset}
    \cup
    {[ArrayArgs("Satrec.sgp4_tsince", <<>>, InitializedRec(1, el), 0, 0, 0,
                <<0, 0, 0, 0>>, TRUE) EXCEPT !.tsince = 45 * Den * q] :
        el \in Elems, q \in (-MaxJ - 5)..(MaxJ + 5)}

InitBatch ==
    /\ pc = "start"
    /\ args \in BatchInputs
    /\ self = args.selfrec
    /\ ret = PyNone
    /\ locale = "C"
    /\ switch_locale = FALSE
    /\ parse_locale = "C"
    /\ satrec_array = args.records
    /\ r = args.r
    /\ v = args.v
    /\ e = args.e
    /\ call = [target |-> "none", imax |-> 0, jmax |-> 0]
    /\ wpc = <<>>
    /\ wj = <<>>
    /\ wrote = [r |-> [x \in DOMAIN r |-> {}], v |-> [x \in DOMAIN v |-> {}],
                e |-> [x \in DOMAIN e |-> {}],
                rec |-> [x \in 1..(IF args.entry = "SatrecArray._sgp4"
                                   THEN Len(args.records) ELSE 1) |-> {}]]
    /\ beyond = {}

NextBatch ==
    \/ SatrecArray_sgp4
    \/ Satrec__sgp4
    \/ \E i \in 0..(call.imax - 1) : worker_sgp4(i)
    \/ \E i \in 0..(call.imax - 1) : worker_store(i)
    \/ vectorized_return
    \/ Satrec_sgp4_tsince
    \/ Satrec_sgp4

SpecBatch == InitBatch /\ [][NextBatch]_vars

\* the call is one of the two _sgp4 methods
IsBatch == args.entry \in {"SatrecArray._sgp4", "Satrec._sgp4"}

\* I and J of the call: the number of records and of query dates
NumRecords == IF args.entry = "SatrecArray._sgp4" THEN Len(args.records) ELSE 1

NumEpochs == Len(args.jd)

\* record i (from 0) as it was before the call
RecordBefore(i) ==
    IF args.entry = "SatrecArray._sgp4" THEN args.records[i + 1] ELSE args.selfrec

\* C3: when fr and jd differ in length, or r or v is not I*J*3 doubles, or
\* e is not I*J bytes, the call fails with an error, no iteration of the
\* loop runs, and r, v, e (and the records) are as they were
C3_ShapeLaw ==
    (/\ IsBatch
     /\ \/ Len(args.fr) # Len(args.jd)
        \/ Len(args.r) # NumRecords * NumEpochs * 3
        \/ Len(args.v) # NumRecords * NumEpochs * 3
        \/ Len(args.e) # NumRecords * NumEpochs) =>
        /\ pc # "running"
        /\ r = args.r /\ v = args.v /\ e = args.e
        /\ satrec_array = args.records /\ self = args.selfrec
        /\ \A x \in DOMAIN wrote.rec : wrote.rec[x] = {}
        /\ pc = "returned" => ret.type \in {"ValueError", "BufferError"}

C3_Witness ==
    /\ pc = "returned"
    /\ args.entry = "SatrecArray._sgp4"
    /\ Len(args.records) = 2 /\ Len(args.jd) = 2 /\ Len(args.fr) = 2
    /\ Len(args.r) = 11 /\ Len(args.v) = 12 /\ Len(args.e) = 4
    /\ ret.type = "ValueError"
    /\ r = args.r

\* the six components of a sample are NAN when code is in 1..5 and are
\* what SGP4Funcs::sgp4 computes for (elem, t) otherwise
SampleObeysNaNLaw(code, elem, t, r3, v3) ==
    IF code \in 1..5
    THEN r3 = <<NAN, NAN, NAN>> /\ v3 = <<NAN, NAN, NAN>>
    ELSE /\ r3 = [k \in 1..3 |-> sgp4_value(elem, t, k)]
         /\ v3 = [k \in 1..3 |-> sgp4_value(elem, t, 3 + k)]

\* C4: after a successful _sgp4 call e[i,j] is the code SGP4Funcs::sgp4
\* gives for record i at date j, sample (i,j) is all NAN for a code in 1..5
\* and the computed values for 0 or 6; sgp4 and sgp4_tsince return their
\* code and vectors by the same rule
C4_NaNLaw ==
    /\ (IsBatch /\ pc = "returned" /\ ret = PyNone) =>
          \A i \in 0..(NumRecords - 1) : \A j \in 0..(NumEpochs - 1) :
             LET rec == RecordBefore(i)
                 t == tsince_of(args.jd[j + 1], args.fr[j + 1], rec)
                 k == i * NumEpochs + j
             IN  /\ e[k + 1] = sgp4_error(rec.elem, t)
                 /\ SampleObeysNaNLaw(e[k + 1], rec.elem, t,
                                      Triple(r, 3 * k), Triple(v, 3 * k))
    /\ (~IsBatch /\ pc = "returned") =>
          LET rec == args.selfrec
              t == IF args.entry = "Satrec.sgp4_tsince" THEN args.tsince
                   ELSE tsince_of(args.jd[1], args.fr[1], rec)
          IN  /\ ret.type = "tuple"
              /\ ret.error = sgp4_error(rec.elem, t)
              /\ SampleObeysNaNLaw(ret.error, rec.elem, t, ret.r, ret.v)

\* a finished call on two records and two dates with a poisoned sample, a
\* sample of code 6 and a sample of code 0
C4_Witness ==
    /\ IsBatch /\ pc = "returned" /\ ret = PyNone
    /\ Len(e) = 4
    /\ \E x \in DOMAIN e : e[x] \in 1..5 /\ Triple(r, 3 * (x - 1)) = <<NAN, NAN, NAN>>
    /\ \E x \in DOMAIN e : e[x] = 6 /\ NAN \notin {r[3 * x], v[3 * x]}
    /\ \E x \in DOMAIN e : e[x] = 0 /\ NAN \notin {r[3 * x], v[3 * x]}

\* record rec without the two fields SGP4Funcs::sgp4 writes
Inputs(rec) == [rec EXCEPT !.t = 0, !.error = 0]

RECURSIVE SequentialRun(_, _, _, _, _, _, _)
\* the loops of lines 72..85 run in order from (i, j)
SequentialRun(mem, i, j, imax, jmax, jd, fr) ==
    IF i >= imax THEN mem
    ELSE IF j >= jmax THEN SequentialRun(mem, i + 1, 0, imax, jmax, jd, fr)
    ELSE SequentialRun(iter_store(iter_sgp4(mem, i, j, jmax, jd, fr), i, j, jmax),
                       i, j + 1, imax, jmax, jd, fr)

\* C10: in every interleaving of the iterations of the parallel loop,
\* iteration i writes only the cells of row i and record i, so no cell and
\* no record has two writers; when the call returns every cell has been
\* written and r, v, e and the records are what the loops run in order give
C10_WorkersDisjoint ==
    (IsBatch /\ call.target # "none") =>
        /\ \A x \in DOMAIN wrote.e : wrote.e[x] \subseteq {(x - 1) \div call.jmax}
        /\ \A x \in DOMAIN wrote.r :
              wrote.r[x] \subseteq {(x - 1) \div (3 * call.jmax)}
        /\ \A x \in DOMAIN wrote.v :
              wrote.v[x] \subseteq {(x - 1) \div (3 * call.jmax)}
        /\ \A x \in DOMAIN wrote.rec : wrote.rec[x] \subseteq {x - 1}
        /\ (pc = "returned") =>
              /\ \A x \in DOMAIN wrote.e : wrote.e[x] # {}
              /\ \A x \in DOMAIN wrote.r : wrote.r[x] # {}
              /\ \A x \in DOMAIN wrote.v : wrote.v[x] # {}
              /\ LET before == [r |-> args.r, v |-> args.v, e |-> args.e,
                                recs |-> [x \in 1..NumRecords |-> RecordBefore(x - 1)],
                                w |-> wrote]
                     seq == SequentialRun(before, 0, 0, call.imax, call.jmax,
                                          args.jd, args.fr)
                 IN  /\ r = seq.r /\ v = seq.v /\ e = seq.e
                     /\ RawArray = seq.recs

\* both iterations under way, the second ahead of the first
C10_Witness ==
    /\ args.entry = "SatrecArray._sgp4"
    /\ pc = "running"
    /\ call.imax = 2 /\ call.jmax = 2
    /\ wpc = <<"store", "sgp4">>
    /\ wj = <<0, 1>>
    /\ wrote.e = <<{}, {}, {1}, {}>>
    /\ wrote.rec = <<{0}, {1}>>

(***************************************************************************)
(* The members `method` and `error` of Satrec_members, and SpecAccess: a   *)
(* script initializes a record, goes on calling sgp4init, sgp4 and         *)
(* sgp4_tsince on it with drawn arguments, and reads the two members in    *)
(* between.                                                                *)
(***************************************************************************)
\* the most the three bytes that follow satrec.method in the elsetrec hold
\* (to the struct they are padding or a part of the next member)
MaxTail == 1

\* {"method", T_CHAR, O(method)}: the char at the offset of method
member_method(satrec) ==
    [type |-> "member", attr |-> "method", offset |-> "method",
     val |-> satrec.method]

\* {"error", T_INT, O(method)}: the int at the offset of method, which is
\* sizeof(int) bytes of which method is the first; tail is what the other
\* three hold, and the byte order is the machine's
member_error(satrec, tail, little_endian) ==
    [type |-> "member", attr |-> "error", offset |-> "method",
     val |-> IF little_endian THEN satrec.method + 256 * tail
             ELSE satrec.method * (256 * 256 * 256) + tail]

\* the script reads satrec.method
get_method ==
    /\ pc \in {"inited", "returned", "read"}
    /\ ret' = member_method(self)
    /\ pc' = "read"
    /\ UNCHANGED <<args, self, lvars, bvars>>

\* the script reads satrec.error
get_error ==
    /\ pc \in {"inited", "returned", "read"}
    /\ \E tail \in 0..MaxTail, little_endian \in BOOLEAN :
          ret' = member_error(self, tail, little_endian)
    /\ pc' = "read"
    /\ UNCHANGED <<args, self, lvars, bvars>>

\* the arguments of a call of sgp4init, sgp4 or sgp4_tsince
AccessArgs(entry, epoch, elem, tsince, jd, fr) ==
    [entry |-> entry, whichconst |-> 2, satnum |-> 25544, epoch |-> epoch,
     elem |-> elem, tsince |-> tsince, jd |-> <<jd>>, fr |-> <<fr>>]

InitCalls ==
    {AccessArgs("Satrec.sgp4init", ep, el, 0, JD1950x2, 0) :
        ep \in {0, Den + 3}, el \in Elems}

AccessCalls ==
    InitCalls
    \cup
    {AccessArgs("Satrec.sgp4", 0, 0, 0, JD1950x2 + 2 * d, f) :
        d \in 0..MaxJ, f \in 0..MaxFrOffset}
    \cup
    {AccessArgs("Satrec.sgp4_tsince", 0, 0, 45 * Den * q, JD1950x2, 0) :
        q \in (-MaxJ)..MaxJ}

\* the script calls the next method of Satrec_methods on the record
call_method ==
    /\ pc \in {"inited", "returned", "read"}
    /\ args' \in AccessCalls
    /\ pc' = IF args'.entry = "Satrec.sgp4init" THEN "new" ELSE "start"
    /\ UNCHANGED <<self, ret, lvars, bvars>>

InitAccess ==
    /\ pc = "new"
    /\ args \in InitCalls
    /\ self = ZeroRec
    /\ ret = PyNone
    /\ locale = "C"
    /\ switch_locale = FALSE
    /\ parse_locale = "C"
    /\ NoBatch

NextAccess ==
    \/ Satrec_sgp4init
    \/ call_method
    \/ Satrec_sgp4
    \/ Satrec_sgp4_tsince
    \/ get_method
    \/ get_error

SpecAccess == InitAccess /\ [][NextAccess]_vars

\* C11: sgp4 and sgp4_tsince return the error code the call left in the
\* record; after any sequence of sgp4init, sgp4 and sgp4_tsince calls
\* reading `error` yields the record's error code (that of the last call),
\* reading `method` yields the method selector, and the two members are
\* read at different offsets
C11_ErrorMemberReadsLastError ==
    /\ (pc = "returned" /\ ret.type = "tuple") => ret.error = self.error
    /\ (pc = "read" /\ ret.attr = "error") =>
          (ret.val = self.error /\ ret.offset = "error")
    /\ (pc = "read" /\ ret.attr = "method") =>
          (ret.val = self.method /\ ret.offset = "method")

(***************************************************************************)
(* The SatrecArray: SatrecArray_new and SatrecArray_init.  A sequence is   *)
(* the sequence of its items; an item is a Satrec object of the script     *)
(* (0 is the Satrec `self`, k > 0 the k-th of the others), an object that  *)
(* is no Satrec, or the failure of PySequence_GetItem.                     *)
(***************************************************************************)
\* the longest sequence given to SatrecArray() or SatrecArray.__init__()
MaxSeqLen == 3
\* how many Satrec objects the script holds besides `self`
MaxPool == 1

NotASatrec == 0 - 1

GetItemFails == 0 - 2

\* the elsetrec of the Satrec object an item refers to
Item_satrec(item) == IF item = 0 THEN self ELSE InitializedRec(2, item % (MaxElem + 1))

\* tp_alloc(type, length): ob_size is length, the slots are zero-filled
tp_alloc(length) == [i \in 1..length |-> ZeroRec]

RECURSIVE init_loop(_, _, _, _)
\* lines 487..500 from index i on; mem is the object's slots, the indices
\* written past them, and the result.  A store to satrec[i] with i not
\* below ob_size lands outside the object: it goes through, or (at index
\* fault) the process is killed
init_loop(mem, sequence, i, fault) ==
    IF i >= Len(sequence) THEN [mem EXCEPT !.result = "ok"]
    ELSE LET item == sequence[i + 1]
         IN  IF item = GetItemFails THEN [mem EXCEPT !.result = "IndexError"]
             ELSE IF item = NotASatrec THEN [mem EXCEPT !.result = "ValueError"]
             ELSE IF i < Len(mem.slots)
             THEN init_loop([mem EXCEPT !.slots[i + 1] = Item_satrec(item)],
                            sequence, i + 1, fault)
             ELSE IF i = fault THEN [mem EXCEPT !.result = "SIGSEGV"]
             ELSE init_loop([mem EXCEPT !.beyond = @ \cup {i}],
                            sequence, i + 1, fault)

\* SatrecArray_new, the tp_new of SatrecArray(sequence)
SatrecArray_new ==
    /\ pc = "start"
    /\ args.entry = "SatrecArray"
    /\ IF ~args.sized
       THEN \* PySequence_Length fails
            /\ ret' = [type |-> "TypeError"]
            /\ pc' = "failed"
            /\ UNCHANGED satrec_array
       ELSE /\ satrec_array' = tp_alloc(Len(args.sequence))
            /\ pc' = "allocated"
            /\ ret' = ret
    /\ UNCHANGED <<args, self, lvars, r, v, e, call, wpc, wj, wrote, beyond>>

\* SatrecArray_init: the tp_init that follows tp_new with the same
\* arguments, or a call of __init__ on the object
SatrecArray_init ==
    /\ pc \in {"allocated", "init"}
    /\ IF ~args.sized
       THEN /\ ret' = [type |-> "TypeError"]
            /\ pc' = "returned"
            /\ UNCHANGED <<satrec_array, beyond>>
       ELSE \E fault \in {Len(args.sequence)} \cup
                         (Len(satrec_array)..(Len(args.sequence) - 1)) :
               LET out == init_loop([slots |-> satrec_array, beyond |-> beyond,
                                     result |-> "ok"],
                                    args.sequence, 0, fault)
               IN  /\ satrec_array' = out.slots
                   /\ beyond' = out.beyond
                   /\ ret' = IF out.result = "ok" THEN PyNone
                             ELSE [type |-> out.result]
                   /\ pc' = IF out.result = "SIGSEGV" THEN "crashed"
                            ELSE IF out.result = "ok" \/ pc = "init"
                            THEN "returned"
                            ELSE "failed"
    /\ UNCHANGED <<args, self, lvars, r, v, e, call, wpc, wj, wrote>>

(***************************************************************************)
(* SpecArray: a script makes a SatrecArray from a drawn sequence, and goes *)
(* on calling __init__ on it with drawn sequences and sgp4_tsince on the   *)
(* Satrec `self`.                                                          *)
(***************************************************************************)
Items == {GetItemFails, NotASatrec} \cup 0..MaxPool

InputSequences == UNION {[1..n -> Items] : n \in 0..MaxSeqLen}

\* the arguments of a call on the SatrecArray or on the Satrec
CollectionArgs(entry, sequence, sized, tsince) ==
    [entry |-> entry, sequence |-> sequence, sized |-> sized,
     tsince |-> tsince]

SequenceArgs(entry) ==
    {CollectionArgs(entry, s, TRUE, 0) : s \in InputSequences}
    \cup {CollectionArgs(entry, <<>>, FALSE, 0)}

\* the script's next call: __init__ on the SatrecArray, or sgp4_tsince on
\* the Satrec
call_on_collection ==
    /\ pc = "returned"
    /\ args' \in SequenceArgs("SatrecArray.__init__")
                 \cup {CollectionArgs("Satrec.sgp4_tsince", <<>>, TRUE,
                                      45 * Den * q) : q \in 1..MaxJ}
    /\ pc' = IF args'.entry = "SatrecArray.__init__" THEN "init" ELSE "start"
    /\ UNCHANGED <<self, ret, lvars, bvars>>

InitArray ==
    /\ pc = "start"
    /\ args \in SequenceArgs("SatrecArray")
    /\ self = InitializedRec(1, 1)
    /\ ret = PyNone
    /\ locale = "C"
    /\ switch_locale = FALSE
    /\ parse_locale = "C"
    /\ NoBatch

NextArray ==
    \/ SatrecArray_new
    \/ SatrecArray_init
    \/ call_on_collection
    \/ Satrec_sgp4_tsince

SpecArray == InitArray /\ [][NextArray]_vars

\* C12: SatrecArray_init stores records only into slots below the length
\* allocated by SatrecArray_new (nothing is written past the last slot and
\* the process is not killed), the length does not change after
\* SatrecArray_new, the slots an __init__ call reaches hold the records
\* of the items as they were at the call, and a later sgp4_tsince on the
\* source Satrec leaves every slot as it was
C12_WritesStayInside ==
    /\ [](beyond = {} /\ pc # "crashed")
    /\ [][pc # "start" => Len(satrec_array') = Len(satrec_array)]_vars
    /\ [][(pc \in {"allocated", "init"} /\ pc' = "returned" /\ ret' = PyNone) =>
             \A i \in 1..Len(args.sequence) :
                 /\ i <= Len(satrec_array)
                 /\ satrec_array'[i] = Item_satrec(args.sequence[i])]_vars
    /\ [][self' # self => satrec_array' = satrec_array]_vars

====
